---- MODULE Spec2Model ----
(***************************************************************************)
(* Model of src/src/intruder_alert.py: the HC-SR04 intruder alert loop.    *)
(* main() polls the distance sensor, applies the threshold and the         *)
(* cooldown, optionally captures a photo through a chain of camera tools   *)
(* (capture_image) and posts to a Discord webhook (send_discord).          *)
(*                                                                         *)
(* Time is counted in whole clock units.  The wall clock read by           *)
(* time.time() belongs to the environment: it advances on its own and may  *)
(* be stepped back (clock adjustment).                                     *)
(***************************************************************************)
EXTENDS Integers, Sequences, FiniteSets, TLC

\* ---------------------------------------------------------------- bounds
MaxTime == 2            \* largest clock value explored
MaxCooldown == 1        \* largest configured cooldown explored
MaxRun == 2             \* cap of the counters kept per out-of-range run

\* ------------------------------------------------------- program constants
DISTANCE_THRESHOLD_CM == 35

\* camera tools in the preference order of capture_image
BACKENDS == <<"rpicam-still", "libcamera-still", "fswebcam">>

BackendSet == {BACKENDS[i] : i \in 1..Len(BACKENDS)}

\* readings the sensor can deliver: below, at and above the threshold
Distances == {DISTANCE_THRESHOLD_CM - 5, DISTANCE_THRESHOLD_CM, DISTANCE_THRESHOLD_CM + 5}

\* how one call of requests.post (or the open() before it) can end
Outcomes == {"ok2xx", "non2xx", "timeout", "ioerror", "openerror"}

VARIABLES
    \* configuration read from the environment at import time
    COOLDOWN_SECONDS, SEND_PHOTO, webhook_valid,
    \* environment
    clock,              \* value time.time() returns now
    photo_exists,       \* a file exists at PHOTO_PATH
    photo_fresh,        \* that file was written during the current tick
    \* main()
    pc, sensor, last_sent, was_in_range,
    dist_cm, now, cooldown_left, img,
    \* observation of the current tick (cleared when the tick ends)
    log,                \* log events of the tick
    capture_calls,      \* calls of capture_image in the tick
    on_path,            \* camera tools shutil.which() finds during that call
    invoked,            \* camera tools run by that call, in order
    clean_exit,         \* tools of that call for which _run_quiet returned True
    capture_ret,        \* what capture_image returned: "none", "true", "false"
    send_calls,         \* calls of send_discord in the tick
    requests,           \* requests.post calls issued in the tick
    attached,           \* the request carried the photo
    outcome,            \* how the dispatch ended, "none" before it
    updates,            \* assignments to last_sent in the tick
    send_gap,           \* on a sending tick: `now` minus `now` of the previous
                        \* sending tick; -1 otherwise, or if there is none
    \* observation of the session
    ticks,              \* 0 before the first sample, 1 afterwards
    last_send_now,      \* `now` of the latest sending tick; -1 if there is none or
                        \* the clock was stepped back since
    sent_ever,          \* send_discord has returned at least once in the session
    clock_decreased,    \* the clock was stepped back since `now` of the current tick
    out_run,            \* length of the current run of out-of-range samples
    run_clears,         \* CLEAR events emitted during that run
    run_first,          \* that run started the session
    raised              \* what ended the loop: "none", "KeyboardInterrupt", "Exception"

cfgvars == <<COOLDOWN_SECONDS, SEND_PHOTO, webhook_valid>>
filevars == <<photo_exists, photo_fresh>>
capvars == <<capture_calls, on_path, invoked, clean_exit, capture_ret>>
sendvars == <<send_calls, requests, attached, outcome>>
runvars == <<ticks, out_run, run_clears, run_first>>
sessvars == <<last_send_now, sent_ever>>
tickvars == <<dist_cm, now, cooldown_left, img, log, updates, send_gap>>

vars == <<cfgvars, filevars, capvars, sendvars, runvars, sessvars, tickvars,
          clock, clock_decreased, pc, sensor, raised, last_sent, was_in_range>>

\* ----------------------------------------------------------------- helpers
Max(a, b) == IF a >= b THEN a ELSE b

Cap(n) == IF n >= MaxRun THEN MaxRun ELSE n

\* a threshold test that also accepts the next reading above the threshold
InRange_Wide(d) == d <= DISTANCE_THRESHOLD_CM + 5

\* a threshold test that excludes the boundary
InRange_Strict(d) == d < DISTANCE_THRESHOLD_CM

\* line 208: in_range = dist_cm <= DISTANCE_THRESHOLD_CM
InRange(d) == d <= DISTANCE_THRESHOLD_CM

\* a cooldown that ends one clock unit early
CooldownLeft_Short(cd, t, ls) == Max(0, cd - (t - ls) - 1)

\* line 211: cooldown_left = max(0.0, COOLDOWN_SECONDS - (now - last_sent))
CooldownLeft(cd, t, ls) == Max(0, cd - (t - ls))

\* a branch test that sends while one clock unit of cooldown is left
CooldownOver_Early(cl) == cl <= 1

\* line 214: the sending branch is taken when cooldown_left <= 0.0
CooldownOver(cl) == cl <= 0

\* a CLEAR that is not edge-triggered
ClearDue_Always(was) == TRUE

\* line 240: CLEAR is logged when was_in_range is set
ClearDue(was) == was

\* a stamp that stores the tick time instead of reading the clock again
StampValue_TickTime(tick_now, time_now) == tick_now

\* line 230: last_sent = time.time(), a second reading of the clock
StampValue(tick_now, time_now) == time_now

\* a stamp that starts the cooldown only after a delivered alert
StampDue_OnSuccessOnly(o) == o = "ok2xx"

\* lines 229-230: the assignment follows the call whatever it logged
StampDue(o) == TRUE

\* an attachment test that looks at the file only, not at the argument
AttachPhoto_IgnoreArg(image_path, is_file) == is_file

\* line 154: if image_path and os.path.isfile(image_path)
AttachPhoto(image_path, is_file) == image_path /\ is_file

\* an except clause that lets transport errors through
Caught_NotTransport(o) == o # "ioerror"

\* lines 153 and 171: try ... except Exception catches whatever the dispatch
\* raises
Caught(o) == TRUE

\* an in-range tick that leaves the flag as it found it
MarkInRange_Keep(was) == was

\* line 237: was_in_range = True after either in-range branch
MarkInRange(was) == TRUE

\* a cleanup that runs only when the loop was interrupted
CloseOnExit_InterruptOnly(s, r) ==
    IF s = "open" /\ r = "KeyboardInterrupt" THEN "closed" ELSE s

\* lines 249-251: sensor.close() is called when a handle exists
CloseOnExit(s, r) == IF s = "open" THEN "closed" ELSE s

\* ------------------------------------------------------------ capture_image
\* lines 110-137: the tools are tried in order from position i.  A tool that
\* shutil.which() does not find is passed over; a tool for which _run_quiet
\* returns True ends the call with os.path.isfile(path); after the last tool
\* the call returns False.
RECURSIVE TryBackends(_, _, _, _, _, _, _, _)
TryBackends(i, file, fresh, inv, cln, present, exitOk, wrote) ==
    IF i > Len(BACKENDS)
    THEN [ret |-> FALSE, file |-> file, fresh |-> fresh, invoked |-> inv, clean |-> cln]
    ELSE LET b == BACKENDS[i]
             file2 == file \/ (b \in wrote)
             fresh2 == fresh \/ (b \in wrote)
         IN  IF b \notin present
             THEN TryBackends(i + 1, file, fresh, inv, cln, present, exitOk, wrote)
             ELSE IF b \in exitOk
                  THEN [ret |-> file2, file |-> file2, fresh |-> fresh2,
                        invoked |-> Append(inv, b), clean |-> cln \cup {b}]
                  ELSE TryBackends(i + 1, file2, fresh2, Append(inv, b), cln,
                                   present, exitOk, wrote)

\* lines 104-108: the stale file is removed when it exists; a failing
\* os.remove is swallowed and leaves it in place.
AfterRemove(file, removeOk) == file /\ ~removeOk

\* lines 95-137
capture_image(file, removeOk, present, exitOk, wrote) ==
    TryBackends(1, AfterRemove(file, removeOk), FALSE, <<>>, {}, present, exitOk, wrote)

\* --------------------------------------------------------------------- Init
Fresh ==
    /\ SEND_PHOTO \in BOOLEAN
    /\ webhook_valid \in BOOLEAN
    /\ photo_exists \in BOOLEAN
    /\ photo_fresh = FALSE
    /\ pc = "setup"
    /\ sensor = "none"
    /\ raised = "none"
    /\ last_sent = 0
    /\ was_in_range = FALSE
    /\ dist_cm = DISTANCE_THRESHOLD_CM + 5
    /\ now = 0
    /\ cooldown_left = 0
    /\ img = FALSE
    /\ log = {}
    /\ capture_calls = 0
    /\ on_path = {}
    /\ invoked = <<>>
    /\ clean_exit = {}
    /\ capture_ret = "none"
    /\ send_calls = 0
    /\ requests = 0
    /\ attached = FALSE
    /\ outcome = "none"
    /\ updates = 0
    /\ send_gap = -1
    /\ ticks = 0
    /\ last_send_now = -1
    /\ sent_ever = FALSE
    /\ clock_decreased = FALSE
    /\ out_run = 0
    /\ run_clears = 0
    /\ run_first = FALSE

\* lines 42 and 210: any cooldown and any clock reading within the bounds
Init ==
    /\ COOLDOWN_SECONDS \in 0..MaxCooldown
    /\ clock \in 0..MaxTime
    /\ Fresh

\* ------------------------------------------------------------------ actions
\* lines 181-202: the sensor is created and the loop state initialised
Setup ==
    /\ pc = "setup"
    /\ sensor' = "open"
    /\ last_sent' = 0
    /\ was_in_range' = FALSE
    /\ pc' = "read"
    /\ UNCHANGED <<cfgvars, filevars, capvars, sendvars, runvars, sessvars, tickvars,
                   clock, clock_decreased, raised>>

\* lines 181-189: DistanceSensor(...) raises (no handle), or the handle exists
\* and the threshold assignment raises
SetupFail ==
    /\ pc = "setup"
    /\ \E acquired \in BOOLEAN : sensor' = IF acquired THEN "open" ELSE "none"
    /\ raised' = "Exception"
    /\ pc' = "finally"
    /\ UNCHANGED <<cfgvars, filevars, capvars, sendvars, runvars, sessvars, tickvars,
                   clock, clock_decreased, last_sent, was_in_range>>

\* lines 206-219 and 231-242: the sample d is read and the branch is chosen
ReadSample(d) ==
    /\ pc = "read"
    /\  LET cl == CooldownLeft(COOLDOWN_SECONDS, clock, last_sent)
            sending == InRange(d) /\ CooldownOver(cl)
            clear == ~InRange(d) /\ ClearDue(was_in_range)
        IN  /\ dist_cm' = d
            /\ now' = clock
            /\ cooldown_left' = cl
            /\ img' = IF sending THEN FALSE ELSE img
            /\ log' = IF sending THEN {"TRIGGER_SEND"}
                      ELSE IF InRange(d) THEN {"TRIGGER_COOLDOWN"}
                      ELSE IF clear THEN {"CLEAR"} ELSE {}
            /\ was_in_range' = IF sending THEN was_in_range
                                ELSE IF InRange(d) THEN MarkInRange(was_in_range)
                                ELSE IF clear THEN FALSE ELSE was_in_range
            /\ pc' = IF sending THEN (IF SEND_PHOTO THEN "capture" ELSE "send")
                     ELSE "sleep"
            /\ out_run' = IF InRange(d) THEN 0 ELSE Cap(out_run + 1)
            /\ run_clears' = IF InRange(d) THEN 0
                             ELSE Cap((IF out_run = 0 THEN 0 ELSE run_clears)
                                      + (IF clear THEN 1 ELSE 0))
            /\ run_first' = IF InRange(d) THEN FALSE
                            ELSE IF out_run = 0 THEN ticks = 0 ELSE run_first
            /\ last_send_now' = IF sending THEN clock ELSE last_send_now
            /\ send_gap' = IF sending /\ last_send_now # -1 THEN clock - last_send_now
                           ELSE -1
    /\ ticks' = 1
    /\ UNCHANGED <<cfgvars, filevars, capvars, sendvars, updates, sent_ever,
                   clock, clock_decreased, sensor, raised, last_sent>>

\* lines 204-242: one iteration reads whatever the sensor delivers
Read == \E d \in Distances : ReadSample(d)

\* lines 206-207: reading the sensor raises
ReadFail ==
    /\ pc = "read"
    /\ raised' = "Exception"
    /\ pc' = "finally"
    /\ UNCHANGED <<cfgvars, filevars, capvars, sendvars, runvars, sessvars, tickvars,
                   clock, clock_decreased, sensor, last_sent, was_in_range>>

\* lines 223-227: capture_image(PHOTO_PATH) and the choice of img
Capture ==
    /\ pc = "capture"
    /\ \E present \in SUBSET BackendSet, removeOk \in BOOLEAN :
       \E exitOk \in SUBSET present, wrote \in SUBSET present :
        LET r == capture_image(photo_exists, removeOk, present, exitOk, wrote)
        IN  /\ on_path' = present
            /\ photo_exists' = r.file
            /\ photo_fresh' = r.fresh
            /\ invoked' = r.invoked
            /\ clean_exit' = r.clean
            /\ capture_ret' = IF r.ret THEN "true" ELSE "false"
            /\ img' = r.ret
            /\ log' = IF r.ret THEN log ELSE log \cup {"CAPTURE_FAILED"}
    /\ capture_calls' = capture_calls + 1
    /\ pc' = "send"
    /\ UNCHANGED <<cfgvars, sendvars, runvars, sessvars, dist_cm, now, cooldown_left,
                   updates, send_gap,
                   clock, clock_decreased, sensor, raised, last_sent, was_in_range>>

\* lines 87-93: subprocess.run is given no timeout; a camera tool that never
\* exits keeps capture_image, and the tick, waiting
CaptureHang ==
    /\ pc = "capture"
    /\ \E present \in SUBSET BackendSet : present # {} /\ on_path' = present
    /\ capture_calls' = capture_calls + 1
    /\ pc' = "hung"
    /\ UNCHANGED <<cfgvars, filevars, invoked, clean_exit, capture_ret, sendvars, runvars,
                   sessvars, tickvars,
                   clock, clock_decreased, sensor, raised, last_sent, was_in_range>>

\* lines 229-237: send_discord(dist_cm, img) (lines 146-172) runs to its
\* return, then last_sent = time.time() and was_in_range = True; an exception
\* that send_discord did not catch would leave the loop instead
SendDiscord ==
    /\ pc = "send"
    /\ send_calls' = send_calls + 1
    /\ IF ~webhook_valid
       THEN /\ outcome' = "skipped"
            /\ log' = log \cup {"NO_WEBHOOK"}
            /\ UNCHANGED <<requests, attached>>
       ELSE \E o \in Outcomes :
            /\ (o = "openerror") => AttachPhoto(img, photo_exists)
            /\ outcome' = o
            /\ requests' = IF o = "openerror" THEN requests ELSE requests + 1
            /\ attached' = (AttachPhoto(img, photo_exists) /\ o # "openerror")
            /\ log' = log \cup {IF o = "ok2xx" THEN "DISCORD_SENT"
                                ELSE IF o = "non2xx" THEN "DISCORD_FAILED"
                                ELSE "DISCORD_ERROR"}
    /\ IF Caught(outcome')
       THEN /\ last_sent' = IF StampDue(outcome') THEN StampValue(now, clock)
                            ELSE last_sent
            /\ updates' = IF StampDue(outcome') THEN updates + 1 ELSE updates
            /\ was_in_range' = MarkInRange(was_in_range)
            /\ sent_ever' = TRUE
            /\ pc' = "sleep"
            /\ UNCHANGED raised
       ELSE /\ raised' = "Exception"
            /\ pc' = "finally"
            /\ UNCHANGED <<last_sent, updates, was_in_range, sent_ever>>
    /\ UNCHANGED <<cfgvars, filevars, capvars, runvars, last_send_now, dist_cm, now,
                   cooldown_left, img, send_gap,
                   clock, clock_decreased, sensor>>

\* line 244: time.sleep(SAMPLE_INTERVAL) ends the tick; what was observed of
\* the tick is cleared for the next one
Sleep ==
    /\ pc = "sleep"
    /\ pc' = "read"
    /\ log' = {}
    /\ updates' = 0
    /\ send_gap' = -1
    /\ photo_fresh' = FALSE
    /\ capture_calls' = 0
    /\ on_path' = {}
    /\ invoked' = <<>>
    /\ clean_exit' = {}
    /\ capture_ret' = "none"
    /\ send_calls' = 0
    /\ requests' = 0
    /\ attached' = FALSE
    /\ outcome' = "none"
    /\ clock_decreased' = FALSE
    /\ UNCHANGED <<cfgvars, photo_exists, runvars, sessvars, dist_cm, now, cooldown_left,
                   img, clock, sensor, raised, last_sent, was_in_range>>

\* lines 246-247: Ctrl+C arrives anywhere inside the try block (before or
\* after the sensor exists when it arrives during setup) and abandons
\* the tick; what was observed of the tick is cleared
Interrupt ==
    /\ pc \in {"setup", "read", "capture", "hung", "send", "sleep"}
    /\ IF pc = "setup"
       THEN \E acquired \in BOOLEAN : sensor' = IF acquired THEN "open" ELSE "none"
       ELSE UNCHANGED sensor
    /\ raised' = "KeyboardInterrupt"
    /\ log' = {"STOPPED"}
    /\ pc' = "finally"
    /\ updates' = 0
    /\ send_gap' = -1
    /\ photo_fresh' = FALSE
    /\ capture_calls' = 0
    /\ on_path' = {}
    /\ invoked' = <<>>
    /\ clean_exit' = {}
    /\ capture_ret' = "none"
    /\ send_calls' = 0
    /\ requests' = 0
    /\ attached' = FALSE
    /\ outcome' = "none"
    /\ clock_decreased' = FALSE
    /\ UNCHANGED <<cfgvars, photo_exists, runvars, sessvars, dist_cm, now,
                   cooldown_left, img, clock, last_sent, was_in_range>>

\* lines 248-254: the finally block; an exception of sensor.close() is logged
Finally ==
    /\ pc = "finally"
    /\ sensor' = CloseOnExit(sensor, raised)
    /\ \E closeOk \in BOOLEAN :
        log' = log \cup (IF sensor' = "closed" /\ ~closeOk THEN {"CLOSE_ERROR"} ELSE {})
                   \cup {"GPIO_RELEASED"}
    /\ pc' = "exit"
    /\ UNCHANGED <<cfgvars, filevars, capvars, sendvars, runvars, sessvars, dist_cm, now,
                   cooldown_left, img, updates, send_gap,
                   clock, clock_decreased, raised, last_sent, was_in_range>>

\* the wall clock moves forward while the program runs
ClockAdvance ==
    /\ pc # "exit"
    /\ clock < MaxTime
    /\ clock' = clock + 1
    /\ UNCHANGED <<cfgvars, filevars, capvars, sendvars, runvars, sessvars, tickvars,
                   clock_decreased, pc, sensor, raised, last_sent, was_in_range>>

\* the wall clock is stepped back (time.time() is not monotonic)
ClockBack ==
    /\ pc # "exit"
    /\ clock > 0
    /\ clock' = clock - 1
    /\ clock_decreased' = (clock_decreased \/ pc \in {"capture", "hung", "send"})
    /\ last_send_now' = -1
    /\ UNCHANGED <<cfgvars, sent_ever, filevars, capvars, sendvars, runvars, tickvars,
                   pc, sensor, raised, last_sent, was_in_range>>

Next ==
    \/ Setup
    \/ SetupFail
    \/ Read
    \/ ReadFail
    \/ Capture
    \/ CaptureHang
    \/ SendDiscord
    \/ Sleep
    \/ Interrupt
    \/ Finally
    \/ ClockAdvance
    \/ ClockBack

Spec == Init /\ [][Next]_vars

\* the statements of main itself, as opposed to Ctrl+C and the passing of time
ProgramStep ==
    \/ Setup
    \/ SetupFail
    \/ Read
    \/ ReadFail
    \/ Capture
    \/ CaptureHang
    \/ SendDiscord
    \/ Sleep
    \/ Finally

\* the interpreter keeps executing main: a statement that can run does run
LiveSpec == Init /\ [][Next]_vars /\ WF_vars(ProgramStep)

\* ------------------------------------------------------------------- claims
\* the step that reads a sample and runs lines 206-242 up to the first call
ReadStep == pc = "read" /\ pc' \in {"capture", "send", "sleep"}

\* the tick has run to its sleep
TickDone == pc = "sleep"

\* the tools run by the last capture_image call
Invoked == {invoked[i] : i \in 1..Len(invoked)}

\* position of a tool in the preference order
Pos(b) == CHOOSE i \in 1..Len(BACKENDS) : BACKENDS[i] = b

\* C1: a tick whose sample is out of range (dist_cm > threshold) ends without
\* a call of capture_image, without a call of send_discord, without a request,
\* and with last_sent at the value it had before the tick.
C1_OutOfRangeNoEffect ==
    [][(ReadStep /\ dist_cm' > DISTANCE_THRESHOLD_CM)
        => /\ pc' = "sleep"
           /\ capture_calls' = 0
           /\ send_calls' = 0
           /\ requests' = 0
           /\ last_sent' = last_sent]_vars

\* C1 witness: an out-of-range tick has ended after an earlier alert was sent
C1_Witness ==
    /\ TickDone
    /\ dist_cm > DISTANCE_THRESHOLD_CM
    /\ last_send_now # -1
    /\ last_sent > 0

\* C2 as stated: a tick with an in-range sample (boundary included) and no
\* cooldown left issues exactly one request to the endpoint, whatever the
\* configuration.
C2_Original ==
    (TickDone /\ dist_cm <= DISTANCE_THRESHOLD_CM /\ cooldown_left = 0)
        => requests = 1

\* C2 amended: such a tick calls send_discord exactly once, and that call
\* issues exactly one request when the endpoint is configured and the photo to
\* attach can be opened, and no request otherwise; never more than one.
C2_OneSendCall ==
    (TickDone /\ dist_cm <= DISTANCE_THRESHOLD_CM /\ cooldown_left = 0)
        => /\ send_calls = 1
           /\ requests = (IF webhook_valid /\ outcome # "openerror" THEN 1 ELSE 0)

\* C2 witness: a sending tick at the boundary reading has ended without any
\* request because no endpoint is configured
C2_Witness ==
    /\ TickDone
    /\ dist_cm = DISTANCE_THRESHOLD_CM
    /\ cooldown_left = 0
    /\ ~webhook_valid
    /\ send_calls = 1
    /\ requests = 0

C5_CooldownNoEffect ==
    [][(ReadStep /\ dist_cm' <= DISTANCE_THRESHOLD_CM
                 /\ COOLDOWN_SECONDS - (now' - last_sent) > 0)
        => /\ pc' = "sleep"
           /\ capture_calls' = 0
           /\ send_calls' = 0
           /\ requests' = 0
           /\ last_sent' = last_sent
           /\ log' = {"TRIGGER_COOLDOWN"}
           /\ was_in_range']_vars

\* C5 witness: a cooldown tick has ended after an earlier alert was sent
C5_Witness ==
    /\ TickDone
    /\ log = {"TRIGGER_COOLDOWN"}
    /\ last_send_now # -1
    /\ cooldown_left > 0
    /\ was_in_range

\* C6: while the clock is not stepped back, the tick times of two consecutive
\* sending ticks are at least COOLDOWN_SECONDS apart.
C6_OnePerCooldownWindow ==
    send_gap # -1 => send_gap >= COOLDOWN_SECONDS

\* C6 witness: with a non-zero cooldown, a second sending tick has started
\* after an earlier one and the clock was not stepped back in between
C6_Witness ==
    /\ pc \in {"capture", "send"}
    /\ COOLDOWN_SECONDS > 0
    /\ send_gap # -1
    /\ send_gap >= COOLDOWN_SECONDS

\* C7 as stated: every maximal run of out-of-range samples, the one that
\* starts the session included, has exactly one CLEAR, on its first tick.
C7_Original ==
    (TickDone /\ out_run > 0)
        => /\ run_clears = 1
           /\ ("CLEAR" \in log <=> out_run = 1)

\* C7 amended: a maximal run of out-of-range samples that follows an in-range
\* sample has exactly one CLEAR, on its first tick; a run that starts the
\* session has none.
C7_ClearOncePerExcursion ==
    (TickDone /\ out_run > 0)
        => /\ run_clears = (IF run_first THEN 0 ELSE 1)
           /\ ("CLEAR" \in log <=> (out_run = 1 /\ ~run_first))

\* C7 witness: a later tick of a run that followed an in-range sample has
\* ended, with the one CLEAR of the run behind it
C7_Witness ==
    /\ TickDone
    /\ out_run = MaxRun
    /\ ~run_first
    /\ run_clears = 1
    /\ "CLEAR" \notin log

\* C8 as stated: a tick assigns last_sent if and only if a request to the
\* endpoint was issued during the tick.
C8_Original ==
    TickDone => (updates > 0 <=> requests > 0)

\* C9 as stated: the tools are run in the fixed order, none after the first
\* one that succeeded; a clean exit without the file counts as a failure after
\* which the next tool on the path is run, so that capture_image returns False
\* only when every tool on the path was run and failed.
C9_Original ==
    capture_ret # "none"
        => /\ \A i, j \in 1..Len(invoked) : i < j => Pos(invoked[i]) < Pos(invoked[j])
           /\ \A i \in 1..Len(invoked) :
                (invoked[i] \in clean_exit /\ capture_ret = "true") => i = Len(invoked)
           /\ capture_ret = "false" => on_path \subseteq Invoked

\* C10 as stated: capture_image returns True if and only if the file exists at
\* the path when it returns.
C10_Original ==
    (pc = "send" /\ capture_ret # "none")
        => (capture_ret = "true" <=> photo_exists)

\* C11: on a sending tick with capture enabled whose capture_image call
\* returned False, the tick goes on to send_discord: by the end of the tick
\* send_discord was called once, no image was passed or attached, and
\* last_sent was assigned once.
C11_CaptureFailureStillSends ==
    /\ capture_ret = "false" => pc \in {"send", "sleep"}
    /\ (TickDone /\ capture_ret = "false")
        => /\ send_calls = 1
           /\ ~img
           /\ ~attached
           /\ updates = 1
           /\ "CAPTURE_FAILED" \in log

\* C11 witness: the capture failed while an older file sits at the path, and
\* the tick ended with one text-only request
C11_Witness ==
    /\ TickDone
    /\ SEND_PHOTO
    /\ capture_ret = "false"
    /\ photo_exists
    /\ send_calls = 1
    /\ requests = 1
    /\ ~attached
    /\ updates = 1

\* C13 as stated: on every tick before send_discord has returned for the first
\* time in the session, cooldown_left is 0, whatever the clock reads and
\* whatever the cooldown is.
C13_Original ==
    [][(ReadStep /\ ~sent_ever) => cooldown_left' = 0]_vars

\* C14: when main has left its finally block, a sensor that was acquired has
\* been closed and the final line was logged, whichever way the loop ended.
C14_SensorReleased ==
    pc = "exit" => /\ sensor # "open"
                   /\ "GPIO_RELEASED" \in log

\* C14 witness: the loop was interrupted after at least one tick and main
\* has returned with the sensor closed
C14_Witness ==
    /\ pc = "exit"
    /\ raised = "KeyboardInterrupt"
    /\ ticks = 1
    /\ sensor = "closed"
    /\ "GPIO_RELEASED" \in log

\* C15 as stated: a tick that has entered capture_image always gets out of
\* it, to its dispatch step (or to the cleanup when Ctrl+C arrives), even when
\* a camera tool never exits.
C15_Original ==
    (pc = "capture") ~> (pc \in {"send", "finally"})

\* ---------------------------------------------- the timed session of C12
\* line 39: SAMPLE_INTERVAL is a quarter of a second by default; the timed
\* session counts the clock in sample intervals
IntervalsPerSecond == 4

\* line 42: the default cooldown, in seconds
DefaultCooldown == 30

\* a clock reading of a session started long after the epoch, in intervals
EpochBase == 1000 * IntervalsPerSecond

\* tick times (0 s, 0.25 s, 5 s, 31 s after the start) and their samples
ScenTimes == <<0, 1, 5 * IntervalsPerSecond, 31 * IntervalsPerSecond>>

ScenSamples == <<40, 30, 28, 32>>

\* the clock reading at which the session started
ScenBase == IF clock >= EpochBase THEN EpochBase ELSE 0

\* the number of the tick read at session time t
ScenTickAt(t) == CHOOSE k \in 1..Len(ScenTimes) : ScenTimes[k] = t

\* the number of the next tick to read
ScenDue == IF ticks = 0 THEN 1 ELSE ScenTickAt(now - ScenBase) + 1

\* lines 201-202 and 210: fresh state, default cooldown, the clock at 0 or
\* at a reading long after the epoch
ScenInit ==
    /\ COOLDOWN_SECONDS = DefaultCooldown * IntervalsPerSecond
    /\ clock \in {0, EpochBase}
    /\ Fresh

\* lines 204-242: the tick that is due reads its sample at its time
ScenRead ==
    /\ ScenDue <= Len(ScenTimes)
    /\ clock = ScenBase + ScenTimes[ScenDue]
    /\ ReadSample(ScenSamples[ScenDue])

\* time passes during capture, dispatch and sleep, never beyond the time of
\* the tick that is due
ScenClock ==
    /\ pc \in {"read", "capture", "send", "sleep"}
    /\ ScenDue <= Len(ScenTimes)
    /\ clock < ScenBase + ScenTimes[ScenDue]
    /\ clock' = clock + 1
    /\ UNCHANGED <<cfgvars, filevars, capvars, sendvars, runvars, sessvars, tickvars,
                   clock_decreased, pc, sensor, raised, last_sent, was_in_range>>

ScenNext ==
    \/ Setup
    \/ ScenRead
    \/ Capture
    \/ SendDiscord
    \/ Sleep
    \/ ScenClock

ScenarioSpec == ScenInit /\ [][ScenNext]_vars

\* what each of the four ticks is to log
ScenExpected == <<{}, {"TRIGGER_SEND"}, {"TRIGGER_COOLDOWN"}, {"TRIGGER_SEND"}>>

\* C12 as stated: in the timed session the tick at 0 s logs no event, the tick
\* at 0.25 s takes the sending branch, the tick at 5 s the cooldown branch with
\* about 25 s left (24 to 26), and the tick at 31 s the sending branch again,
\* however long capture and dispatch took.
C12_Original ==
    TickDone =>
        LET k == ScenTickAt(now - ScenBase)
        IN  /\ log \cap {"TRIGGER_SEND", "TRIGGER_COOLDOWN", "CLEAR"} = ScenExpected[k]
            /\ (k = 3) => cooldown_left \in (24 * IntervalsPerSecond)..(26 * IntervalsPerSecond)

\* C16: no step of capture_image or send_discord raises into the loop: a
\* tick in its capture or send step is left only by the next step of the
\* tick (or by Ctrl+C), a returning send_discord call is followed by the sleep,
\* and the sleep by the next read.
C16_ErrorsContained ==
    [][/\ (pc \in {"capture", "send"} /\ raised' # "KeyboardInterrupt")
            => /\ raised' = "none"
               /\ pc' \in {"capture", "hung", "send", "sleep"}
       /\ (pc = "send" /\ send_calls' = send_calls + 1) => pc' = "sleep"
       /\ (pc = "sleep" /\ pc' # "sleep" /\ raised' # "KeyboardInterrupt")
            => pc' = "read"]_vars

\* C16 witness: every tool failed and the request raised a transport error,
\* and the tick still reached its sleep with nothing raised
C16_Witness ==
    /\ TickDone
    /\ capture_ret = "false"
    /\ outcome = "ioerror"
    /\ raised = "none"
    /\ sensor = "open"

\* C17 as stated: a send_discord call with a valid endpoint issues exactly one
\* request; the request carries the image exactly when an image path was
\* passed and the file exists; an image is attached only after a successful
\* capture_image call and never with capture disabled.
C17_Original ==
    (TickDone /\ send_calls = 1 /\ webhook_valid)
        => /\ requests = 1
           /\ attached <=> (img /\ photo_exists)
           /\ attached => (capture_ret = "true" /\ SEND_PHOTO)

\* C18 as stated: once a sending tick that captured an image has ended, the
\* file is no longer at the capture path.
C18_Original ==
    (TickDone /\ send_calls = 1 /\ capture_ret = "true") => ~photo_exists

\* C19 as stated: an attached image is a file that a tool wrote during the
\* capture_image call of the same tick.
C19_Original ==
    attached => photo_fresh

\* C20: a tick that has reached its sleep leaves was_in_range equal to the
\* in_range value of its sample, and a tick logs CLEAR if and only if its
\* sample is out of range and the tick before it had a sample in range.
C20_FlagFollowsSample ==
    [][/\ (pc' = "sleep") => (was_in_range' <=> dist_cm' <= DISTANCE_THRESHOLD_CM)
       /\ ReadStep => ("CLEAR" \in log'
                        <=> /\ dist_cm' > DISTANCE_THRESHOLD_CM
                            /\ ticks = 1
                            /\ dist_cm <= DISTANCE_THRESHOLD_CM)]_vars

\* C20 witness: an out-of-range tick right after an in-range one has logged
\* CLEAR and cleared the flag
C20_Witness ==
    /\ TickDone
    /\ "CLEAR" \in log
    /\ dist_cm > DISTANCE_THRESHOLD_CM
    /\ ~was_in_range
    /\ sent_ever

====
